---- MODULE Spec2Model ----
\* Excel Data Encryptor: column classification, value normalisation and hashing,
\* and the chunked encryption run of the App component.
\*
\* A JavaScript string is a sequence of one-character strings. A cell value
\* (CellValue = string | number | boolean | null | undefined) is a tagged record.
EXTENDS Integers, Sequences, FiniteSets, TLC

VARIABLES
    \* React state of App
    state,          \* AppStateType
    file,           \* the uploaded File, or Null
    parsedData,     \* ParsedData (rows are references into rowObjs), or Null
    columnMappings, \* ColumnMapping[]
    progress,       \* percent shown by the progress bar
    errorMessage,
    stats,          \* {totalRows, encryptedCells, duration}
    \* the heap and the handlers in flight
    rowObjs,        \* the row arrays of the parsed table, by reference
    upload,         \* handleFileUpload / handleFileInputChange awaiting its parser
    run,            \* handleEncrypt: its position and its local variables
    \* what the page did to the outside
    download,       \* the file handed to downloadFile for the current upload, or Null
    original,       \* the rows as the parser delivered them
    runLog,         \* what the current or last run did: cells gone through, timers set
    \* the services called on their own
    hashArgs,       \* hashValue: the values handed to hashValue, in call order
    hashRets,       \* hashValue: what each finished call did (returned value or rejection)
    digestLog,      \* the byte arrays handed to crypto.subtle.digest, in call order
    hashBuffer,     \* the ArrayBuffer a digest resolved with (bytes)
    hashHex,        \* the hexadecimal string built from hashBuffer, or NotYet
    headersArg,     \* findTargetColumns: its argument
    mappingsRet,    \* findTargetColumns: its result, or NotYet
    originalFilename, \* generateDownloadFilename: its first argument
    date,           \* generateDownloadFilename: its second argument (local date)
    filenameRet,    \* generateDownloadFilename: its result, or NotYet
    fileArg,        \* validateFile / detectFileType: the File handed to both
    validationRet,  \* validateFile: its result, or NotYet
    fileTypeRet     \* detectFileType: its result, or NotYet

appVars == <<state, file, parsedData, columnMappings, progress, errorMessage, stats,
             rowObjs, upload, run, download, original, runLog>>

hashVars == <<hashArgs, hashRets, digestLog, hashBuffer, hashHex>>

matcherVars == <<headersArg, mappingsRet>>

filenameVars == <<originalFilename, date, filenameRet>>

validationVars == <<fileArg, validationRet, fileTypeRet>>

vars == <<appVars, hashVars, matcherVars, filenameVars, validationVars>>

------------------------------------------------------------------------------
\* Bounds of the model

MaxStrLen == 3        \* longest generated string handed to hashValue
MaxStride == 2        \* digest byte patterns: byte i = (seed + stride * i) mod 256

------------------------------------------------------------------------------
\* Characters and strings

\* Printable ASCII, code points 32..126 (the grave accent, 96, is spelled out).
Ascii == <<" ", "!", "\"", "#", "$", "%", "&", "'", "(", ")", "*", "+", ",", "-", ".", "/", "0", "1", "2", "3", "4", "5", "6", "7", "8", "9", ":", ";", "<", "=", ">", "?", "@", "A", "B", "C", "D", "E", "F", "G", "H", "I", "J", "K", "L", "M", "N", "O", "P", "Q", "R", "S", "T", "U", "V", "W", "X", "Y", "Z", "[", "\\", "]", "^", "_", "grave", "a", "b", "c", "d", "e", "f", "g", "h", "i", "j", "k", "l", "m", "n", "o", "p", "q", "r", "s", "t", "u", "v", "w", "x", "y", "z", "{", "|", "}", "~">>

UpperCase == <<"A", "B", "C", "D", "E", "F", "G", "H", "I", "J", "K", "L", "M", "N", "O", "P", "Q", "R", "S", "T", "U", "V", "W", "X", "Y", "Z">>

LowerCase == <<"a", "b", "c", "d", "e", "f", "g", "h", "i", "j", "k", "l", "m", "n", "o", "p", "q", "r", "s", "t", "u", "v", "w", "x", "y", "z">>

HexDigits == <<"0", "1", "2", "3", "4", "5", "6", "7", "8", "9", "a", "b", "c", "d", "e", "f">>

\* The characters String.prototype.trim and the regular expression class \s remove
\* (those of them that occur in the model's strings).
WhiteSpace == {" ", "\t", "\n", "\r"}

\* TextEncoder.encode of one ASCII character: its code point.
CharCode(c) ==
    IF c = "\t" THEN 9
    ELSE IF c = "\n" THEN 10
    ELSE IF c = "\r" THEN 13
    ELSE 31 + (CHOOSE i \in 1..Len(Ascii) : Ascii[i] = c)

\* Outside ASCII the model's strings have the Greek sigmas: "SIGMA" is the capital
\* letter (U+03A3), "sigma" the small one (U+03C3), "varsigma" the small final
\* one (U+03C2).
Sigmas == {"SIGMA", "sigma", "varsigma"}

\* The lower-case mapping of one character, whatever surrounds it.
LowerChar(c) ==
    IF c = "SIGMA" THEN "sigma"
    ELSE IF \E i \in 1..Len(UpperCase) : UpperCase[i] = c
    THEN LowerCase[CHOOSE i \in 1..Len(UpperCase) : UpperCase[i] = c]
    ELSE c

\* Unicode properties Cased and Case_Ignorable, on the model's characters.
Cased(c) ==
    \/ c \in Sigmas
    \/ \E i \in 1..Len(UpperCase) : UpperCase[i] = c \/ LowerCase[i] = c

CaseIgnorable == {"'", ".", ":", "^", "grave"}

\* The condition Final_Sigma: a cased letter before (case-ignorable characters
\* apart) and none after.
FinalSigma(s, i) ==
    /\ \E j \in 1..(i - 1) :
          Cased(s[j]) /\ \A k \in (j + 1)..(i - 1) : s[k] \in CaseIgnorable
    /\ ~\E j \in (i + 1)..Len(s) :
          Cased(s[j]) /\ \A k \in (i + 1)..(j - 1) : s[k] \in CaseIgnorable

\* String.prototype.toLowerCase: the Unicode default case conversion, in which
\* a capital sigma in final position becomes the final small sigma.
toLowerCase(s) ==
    [i \in 1..Len(s) |->
        IF s[i] = "SIGMA" /\ FinalSigma(s, i) THEN "varsigma" ELSE LowerChar(s[i])]

SetMin(S) == CHOOSE x \in S : \A y \in S : x <= y
SetMax(S) == CHOOSE x \in S : \A y \in S : y <= x

\* String.prototype.trim: drops the leading and the trailing white space.
trim(s) ==
    LET keep == {i \in 1..Len(s) : s[i] \notin WhiteSpace}
    IN IF keep = {} THEN <<>> ELSE SubSeq(s, SetMin(keep), SetMax(keep))

\* All strings over alphabet A of length at most n.
StringsUpTo(A, n) == UNION {[1..k -> A] : k \in 0..n}

------------------------------------------------------------------------------
\* Cell values

Null == [t |-> "null"]
Undefined == [t |-> "undefined"]
Str(s) == [t |-> "string", s |-> s]
Num(n) == [t |-> "number", n |-> n]
Bool(b) == [t |-> "boolean", b |-> b]

------------------------------------------------------------------------------
\* encryptionService.ts

DigestBytes == 32     \* SHA-256 gives 256 bits

encode(s) == [i \in 1..Len(s) |-> CharCode(s[i])]

RECURSIVE Absorb(_, _, _)
Absorb(data, k, h) ==
    IF k > Len(data) THEN h
    ELSE Absorb(data, k + 1, (h * 131 + data[k] + 1) % 16000057)

\* crypto.subtle.digest('SHA-256', data) when it resolves: the host's primitive,
\* a fixed function from byte arrays to 32 bytes. Its bytes are derived here from
\* a position-sensitive checksum of the data, which tells apart all the byte
\* arrays the model hashes.
SubtleDigest(data) ==
    LET h == Absorb(data, 1, 7 + Len(data))
        lo == h % 256
        mid == (h \div 256) % 256
        hi == h \div 65536
    IN [i \in 1..DigestBytes |->
           CASE i % 3 = 1 -> (lo + 3 * (i - 1)) % 256
             [] i % 3 = 2 -> (mid + 5 * (i - 2)) % 256
             [] OTHER -> (hi + 7 * (i - 3)) % 256]

\* b.toString(16)
toString16(b) ==
    IF b < 16 THEN <<HexDigits[b + 1]>>
    ELSE <<HexDigits[(b \div 16) + 1], HexDigits[(b % 16) + 1]>>

\* s.padStart(2, '0')
padStart2(s) == IF Len(s) < 2 THEN <<"0">> \o s ELSE s

RECURSIVE join(_)
join(parts) == IF parts = <<>> THEN <<>> ELSE Head(parts) \o join(Tail(parts))

\* hashArray.map((b) => b.toString(16).padStart(2, '0')).join('')
HexNoPad(bytes) == join([i \in 1..Len(bytes) |-> toString16(bytes[i])])
HashHex(bytes) == join([i \in 1..Len(bytes) |-> padStart2(toString16(bytes[i]))])

\* value.trim().toLowerCase()
NormalizedUntrimmed(value) == toLowerCase(value)
Normalized(value) == toLowerCase(trim(value))

\* hashValue testing the raw value, not the normalized one, for emptiness.
HashValueRunRawTest(value) ==
    LET normalized == Normalized(value)
    IN IF value = <<>>
       THEN [ret |-> Null, digests |-> <<>>]
       ELSE LET data == encode(normalized)
            IN [ret |-> Str(HashHex(SubtleDigest(data))), digests |-> <<data>>]

\* One call of hashValue: ret is the value the promise resolves with, digests the
\* byte arrays it handed to crypto.subtle.digest.
HashValueRun(value) ==
    LET normalized == Normalized(value)
    IN IF normalized = <<>>
       THEN [ret |-> Null, digests |-> <<>>]
       ELSE \* data and the digest buffer are constants of the call, computed once
            CHOOSE result \in
                UNION {{[ret |-> Str(HashHex(buffer)), digests |-> <<data>>] :
                           buffer \in {SubtleDigest(data)}} :
                       data \in {encode(normalized)}} : TRUE

\* hashValue hashing the value as given.
hashValueOfRaw(value) ==
    IF value = <<>> THEN Null ELSE Str(HashHex(SubtleDigest(encode(value))))

hashValue(value) == HashValueRun(value).ret

------------------------------------------------------------------------------
\* hashValue as a function of its argument: HashSpec hashes two values one after
\* the other.

JOHN == <<"J", "O", "H", "N">>
john == <<"j", "o", "h", "n">>
PaddedJohn == <<" ", " ", "J", "o", "h", "n", " ", " ">>

HashAlphabet == {" ", "\t", "a", "A"}

HashInputs == StringsUpTo(HashAlphabet, MaxStrLen) \cup {JOHN, john, PaddedJohn}

NotYet == [t |-> "notyet"]
Returns(v) == [t |-> "returned", v |-> v]
Rejected == [t |-> "rejected"]

\* handleEncrypt before any click: no run in flight.
NoRun == [pc |-> "none"]
NoUpload == [pc |-> "none"]

\* The useState initial values of App, nothing in flight, nothing downloaded.
AppInit ==
    /\ state = "IDLE"
    /\ file = Null
    /\ parsedData = Null
    /\ columnMappings = <<>>
    /\ progress = 0
    /\ errorMessage = ""
    /\ stats = [totalRows |-> 0, encryptedCells |-> 0, duration |-> 0]
    /\ rowObjs = <<>>
    /\ upload = NoUpload
    /\ run = NoRun
    /\ download = Null
    /\ original = <<>>
    /\ runLog = <<>>

MatcherIdle ==
    /\ headersArg = <<>>
    /\ mappingsRet = NotYet

FilenameIdle ==
    /\ originalFilename = <<>>
    /\ date = Null
    /\ filenameRet = NotYet

ValidationIdle ==
    /\ fileArg = Null
    /\ validationRet = NotYet
    /\ fileTypeRet = NotYet

HashIdle ==
    /\ hashArgs = <<>>
    /\ hashRets = <<>>
    /\ digestLog = <<>>
    /\ hashBuffer = <<>>
    /\ hashHex = NotYet

HashInit ==
    /\ AppInit
    /\ MatcherIdle
    /\ FilenameIdle
    /\ ValidationIdle
    /\ hashArgs \in HashInputs \X HashInputs
    /\ hashRets = <<>>
    /\ digestLog = <<>>
    /\ hashBuffer = <<>>
    /\ hashHex = NotYet

\* The next call of hashValue runs to its return.
HashValueReturns ==
    /\ Len(hashRets) < Len(hashArgs)
    /\ LET r == HashValueRun(hashArgs[Len(hashRets) + 1])
       IN /\ hashRets' = Append(hashRets, r.ret)
          /\ digestLog' = digestLog \o r.digests
    /\ UNCHANGED <<hashArgs, hashBuffer, hashHex, appVars, matcherVars, filenameVars, validationVars>>

\* The next call of hashValue reaches crypto.subtle.digest and the digest rejects
\* (no SubtleCrypto in this context): hashValue rejects with it.
HashValueRejects ==
    /\ Len(hashRets) < Len(hashArgs)
    /\ LET r == HashValueRun(hashArgs[Len(hashRets) + 1])
       IN /\ r.digests # <<>>
          /\ hashRets' = Append(hashRets, Rejected)
          /\ digestLog' = digestLog \o r.digests
    /\ UNCHANGED <<hashArgs, hashBuffer, hashHex, appVars, matcherVars, filenameVars, validationVars>>

HashNext == HashValueReturns \/ HashValueRejects

HashSpec == HashInit /\ [][HashNext]_vars

------------------------------------------------------------------------------
\* The hexadecimal rendering of a digest, for any bytes the digest resolves with.

ByteSeeds == 0..255

DigestPattern(seed, stride) == [i \in 1..DigestBytes |-> (seed + stride * i) % 256]

HexInit ==
    /\ AppInit
    /\ MatcherIdle
    /\ FilenameIdle
    /\ ValidationIdle
    /\ hashArgs \in {<<JOHN>>, <<PaddedJohn>>, <<<<" ", "\t">>>>, <<<<"a">>>>}
    /\ hashRets = <<>>
    /\ digestLog = <<>>
    /\ hashBuffer \in {DigestPattern(seed, stride) : seed \in ByteSeeds, stride \in 0..MaxStride}
    /\ hashHex = NotYet

\* The conversion of hashValue on the resolved buffer.
ConvertToHex ==
    /\ hashHex = NotYet
    /\ hashHex' = Str(HashHex(hashBuffer))
    /\ UNCHANGED <<hashArgs, hashRets, digestLog, hashBuffer, appVars, matcherVars, filenameVars, validationVars>>

HexNext == ConvertToHex \/ HashValueReturns \/ HashValueRejects

HexSpec == HexInit /\ [][HexNext]_vars

------------------------------------------------------------------------------
\* Claims about hashValue

IsHexChar(c) == \E i \in 1..Len(HexDigits) : HexDigits[i] = c

Returned(k) == k <= Len(hashRets) /\ hashRets[k] # Rejected

\* C5: values with the same trimmed, lower-cased form have the same hashValue
\* result, and hashValue(x) = hashValue(lowercase(trim(x))); so "JOHN", "john"
\* and "  John  " hash alike.
C5_NormalizationInvariance ==
    (Returned(1) /\ Returned(2)) =>
        LET x == hashArgs[1]
            y == hashArgs[2]
        IN /\ (toLowerCase(trim(x)) = toLowerCase(trim(y))) => hashRets[1] = hashRets[2]
           /\ (y = toLowerCase(trim(x))) => hashRets[1] = hashRets[2]
           /\ ({x, y} \subseteq {JOHN, john, PaddedJohn}) => hashRets[1] = hashRets[2]

C5_Witness ==
    /\ hashArgs = <<PaddedJohn, john>>
    /\ Returned(1) /\ Returned(2)
    /\ hashRets[1] = hashRets[2]
    /\ hashRets[1].t = "string"

HexOfBytes(str, bytes) ==
    /\ Len(str) = 64
    /\ \A i \in 1..Len(str) : IsHexChar(str[i])
    /\ \A i \in 1..Len(bytes) :
          /\ str[2 * i - 1] = HexDigits[(bytes[i] \div 16) + 1]
          /\ str[2 * i] = HexDigits[(bytes[i] % 16) + 1]

\* C7: every non-null result of hashValue has 64 characters, all in 0-9a-f, and
\* the conversion renders each of the 32 bytes as two hexadecimal digits (zero
\* padded below 16), whatever the bytes are.
C7_SixtyFourHexChars ==
    /\ \A k \in 1..Len(hashRets) :
          (Returned(k) /\ hashRets[k] # Null) =>
              /\ Len(hashRets[k].s) = 64
              /\ \A i \in 1..64 : IsHexChar(hashRets[k].s[i])
    /\ hashHex # NotYet => HexOfBytes(hashHex.s, hashBuffer)

C7_Witness ==
    /\ hashHex # NotYet
    /\ \E i \in 1..DigestBytes : hashBuffer[i] < 16
    /\ \E i \in 1..DigestBytes : hashBuffer[i] = 255
    /\ Returned(1) /\ hashRets[1] # Null

------------------------------------------------------------------------------
\* Column matcher (findTargetColumns and its helpers)

MaxHeaders == 2       \* longest generated header list
MaxNameLen == 2       \* longest generated header

\* TargetColumnType
FirstName == [t |-> "TargetColumnType", v |-> "FIRST_NAME"]
LastName == [t |-> "TargetColumnType", v |-> "LAST_NAME"]
Mobile == [t |-> "TargetColumnType", v |-> "MOBILE"]
Email == [t |-> "TargetColumnType", v |-> "EMAIL"]
Phone == [t |-> "TargetColumnType", v |-> "PHONE"]

\* The character class [\s_-]
Separators == WhiteSpace \cup {"_", "-"}

IsNotSeparator(c) == c \notin Separators

IsNotWhiteSpace(c) == c \notin WhiteSpace

\* normalizeColumnName removing white space only.
normalizeColumnNameSpacesOnly(name) == trim(SelectSeq(toLowerCase(name), IsNotWhiteSpace))

\* name.toLowerCase().replace(/[\s_-]+/g, '').trim()
normalizeColumnName(name) == trim(SelectSeq(toLowerCase(name), IsNotSeparator))

k_firstname == <<"f", "i", "r", "s", "t", "n", "a", "m", "e">>
k_fname == <<"f", "n", "a", "m", "e">>
k_lastname == <<"l", "a", "s", "t", "n", "a", "m", "e">>
k_lname == <<"l", "n", "a", "m", "e">>
k_email == <<"e", "m", "a", "i", "l">>
k_emailaddress == <<"e", "m", "a", "i", "l", "a", "d", "d", "r", "e", "s", "s">>
k_mobile == <<"m", "o", "b", "i", "l", "e">>
k_mobilenumber == <<"m", "o", "b", "i", "l", "e", "n", "u", "m", "b", "e", "r">>
k_phone == <<"p", "h", "o", "n", "e">>
k_phonenumber == <<"p", "h", "o", "n", "e", "n", "u", "m", "b", "e", "r">>
k_e_dash_mail == <<"e", "-", "m", "a", "i", "l">>

\* The object literal targetPatterns: its own properties, as <<key, value>>.
targetPatternsPhoneAsMobile ==
    {<<k_firstname, FirstName>>, <<k_fname, FirstName>>,
     <<k_lastname, LastName>>, <<k_lname, LastName>>,
     <<k_email, Email>>, <<k_emailaddress, Email>>, <<k_e_dash_mail, Email>>,
     <<k_mobile, Mobile>>, <<k_mobilenumber, Mobile>>,
     <<k_phone, Mobile>>, <<k_phonenumber, Mobile>>}

targetPatterns ==
    {<<k_firstname, FirstName>>, <<k_fname, FirstName>>,
     <<k_lastname, LastName>>, <<k_lname, LastName>>,
     <<k_email, Email>>, <<k_emailaddress, Email>>, <<k_e_dash_mail, Email>>,
     <<k_mobile, Mobile>>, <<k_mobilenumber, Mobile>>,
     <<k_phone, Phone>>, <<k_phonenumber, Phone>>}

\* The properties every object literal inherits from Object.prototype.
ObjectPrototype ==
    {<<"c", "o", "n", "s", "t", "r", "u", "c", "t", "o", "r">>,
     <<"t", "o", "S", "t", "r", "i", "n", "g">>,
     <<"v", "a", "l", "u", "e", "O", "f">>,
     <<"h", "a", "s", "O", "w", "n", "P", "r", "o", "p", "e", "r", "t", "y">>,
     <<"i", "s", "P", "r", "o", "t", "o", "t", "y", "p", "e", "O", "f">>,
     <<"p", "r", "o", "p", "e", "r", "t", "y", "I", "s", "E", "n", "u", "m", "e", "r", "a", "b", "l", "e">>,
     <<"t", "o", "L", "o", "c", "a", "l", "e", "S", "t", "r", "i", "n", "g">>,
     <<"_", "_", "p", "r", "o", "t", "o", "_", "_">>,
     <<"_", "_", "d", "e", "f", "i", "n", "e", "G", "e", "t", "t", "e", "r", "_", "_">>,
     <<"_", "_", "d", "e", "f", "i", "n", "e", "S", "e", "t", "t", "e", "r", "_", "_">>,
     <<"_", "_", "l", "o", "o", "k", "u", "p", "G", "e", "t", "t", "e", "r", "_", "_">>,
     <<"_", "_", "l", "o", "o", "k", "u", "p", "S", "e", "t", "t", "e", "r", "_", "_">>}

Inherited(key) == [t |-> "inherited", key |-> key]

\* targetPatterns[normalized]: the own property, else the inherited one, else
\* undefined.
GetProperty(obj, key) ==
    IF \E p \in obj : p[1] = key
    THEN (CHOOSE p \in obj : p[1] = key)[2]
    ELSE IF key \in ObjectPrototype THEN Inherited(key)
    ELSE Undefined

IndexOf(seq, x) == SetMin({i \in 1..Len(seq) : seq[i] = x})

\* findTargetColumns taking the column index from headers.indexOf(header).
findTargetColumnsIndexOf(headers) ==
    [index \in 1..Len(headers) |->
        LET header == headers[index]
            normalized == normalizeColumnName(header)
            targetType == GetProperty(targetPatterns, normalized)
        IN [originalName |-> header,
            normalizedName |-> normalized,
            isTarget |-> targetType # Undefined,
            targetType |-> targetType,
            columnIndex |-> IndexOf(headers, header) - 1]]

\* headers.map((header, index) => ...): index counts from 0.
findTargetColumns(headers) ==
    [index \in 1..Len(headers) |->
        LET header == headers[index]
            normalized == normalizeColumnName(header)
            targetType == GetProperty(targetPatterns, normalized)
        IN [originalName |-> header,
            normalizedName |-> normalized,
            isTarget |-> targetType # Undefined,
            targetType |-> targetType,
            columnIndex |-> index - 1]]

\* hasTargetColumns satisfied with any column at all.
hasTargetColumnsAny(headers) == Len(findTargetColumns(headers)) > 0

hasTargetColumns(headers) ==
    \E i \in 1..Len(headers) : findTargetColumns(headers)[i].isTarget

\* Headers
HFirst_Name == <<"F", "i", "r", "s", "t", "_", "N", "a", "m", "e">>
HEmail == <<"E", "-", "m", "a", "i", "l">>
HMobileNumber == <<"M", "o", "b", "i", "l", "e", " ", "N", "u", "m", "b", "e", "r">>
HPhone == <<"P", "h", "o", "n", "e">>
HDept == <<"D", "e", "p", "t">>
HEmpty == <<>>
HFname == <<"f", "n", "a", "m", "e">>
HLname == <<"l", "n", "a", "m", "e">>
HLastName == <<"L", "a", "s", "t", " ", "N", "a", "m", "e">>
HEmailAddress == <<"E", "m", "a", "i", "l", " ", "A", "d", "d", "r", "e", "s", "s">>
HPhoneNumber == <<"p", "h", "o", "n", "e", "_", "n", "u", "m", "b", "e", "r">>
HConstructor == <<"C", "o", "n", "s", "t", "r", "u", "c", "t", "o", "r">>
HSeparators == <<" ", "-", " ", "_">>
HMobile == <<"M", "O", "B", "I", "L", "E">>
HFirstName == <<"F", "i", "r", "s", "t", " ", "N", "a", "m", "e">>
HId == <<"I", "D">>
HASigma == <<"A", "SIGMA">>
HA_Sigma == <<"A", " ", "SIGMA">>

HeaderPool ==
    {HFirst_Name, HEmail, HMobileNumber, HPhone, HDept, HEmpty, HFname, HLname, HLastName, HEmailAddress, HPhoneNumber, HConstructor, HSeparators, HMobile, HFirstName, HId, HASigma, HA_Sigma}

ExampleHeaders == <<HFirst_Name, HEmail, HMobileNumber, HPhone, HDept>>

\* Generated headers: every string of separators, letters in both cases and the
\* capital sigma, up to MaxNameLen characters; they come in pairs.
NameAlphabet == {" ", "_", "-", "A", "a", "SIGMA"}

GeneratedHeaders == StringsUpTo(NameAlphabet, MaxNameLen)

HeaderLists ==
    UNION {[1..k -> HeaderPool] : k \in 0..MaxHeaders}
    \cup {ExampleHeaders}
    \cup (GeneratedHeaders \X GeneratedHeaders)

MatcherInit ==
    /\ AppInit
    /\ HashIdle
    /\ FilenameIdle
    /\ ValidationIdle
    /\ headersArg \in HeaderLists
    /\ mappingsRet = NotYet

FindTargetColumns ==
    /\ mappingsRet = NotYet
    /\ mappingsRet' = Returns(findTargetColumns(headersArg))
    /\ UNCHANGED <<headersArg, appVars, hashVars, filenameVars, validationVars>>

MatcherNext == FindTargetColumns

MatcherSpec == MatcherInit /\ [][MatcherNext]_vars

------------------------------------------------------------------------------
\* validation.ts and detectFileType

MAX_FILE_SIZE == 100 * 1024 * 1024

MimeCsv == <<"t", "e", "x", "t", "/", "c", "s", "v">>
MimeXls == <<"a", "p", "p", "l", "i", "c", "a", "t", "i", "o", "n", "/", "v", "n", "d", ".", "m", "s", "-", "e", "x", "c", "e", "l">>
MimeXlsx == <<"a", "p", "p", "l", "i", "c", "a", "t", "i", "o", "n", "/", "v", "n", "d", ".", "o", "p", "e", "n", "x", "m", "l", "f", "o", "r", "m", "a", "t", "s", "-", "o", "f", "f", "i", "c", "e", "d", "o", "c", "u", "m", "e", "n", "t", ".", "s", "p", "r", "e", "a", "d", "s", "h", "e", "e", "t", "m", "l", ".", "s", "h", "e", "e", "t">>
MimePlain == <<"t", "e", "x", "t", "/", "p", "l", "a", "i", "n">>

ExtCsv == <<".", "c", "s", "v">>
ExtXls == <<".", "x", "l", "s">>
ExtXlsx == <<".", "x", "l", "s", "x">>

SUPPORTED_MIME_TYPES == {MimeCsv, MimeXls, MimeXlsx}
SUPPORTED_EXTENSIONS == {ExtCsv, ExtXls, ExtXlsx}

endsWith(s, suffix) ==
    /\ Len(suffix) <= Len(s)
    /\ SubSeq(s, Len(s) - Len(suffix) + 1, Len(s)) = suffix

SizeError == "File size exceeds 100MB limit."
TypeError == "Please upload a valid Excel (.xlsx, .xls) or CSV file."

Valid == [isValid |-> TRUE, errors |-> <<>>]

validateFileSize(f) ==
    IF f.size <= MAX_FILE_SIZE THEN Valid
    ELSE [isValid |-> FALSE, errors |-> <<SizeError>>]

validateFileType(f) ==
    LET mimeType == toLowerCase(f.type)
        fileName == toLowerCase(f.name)
    IN IF mimeType \in SUPPORTED_MIME_TYPES THEN Valid
       ELSE IF \E ext \in SUPPORTED_EXTENSIONS : endsWith(fileName, ext) THEN Valid
       ELSE [isValid |-> FALSE, errors |-> <<TypeError>>]

validateFile(f) ==
    IF ~validateFileSize(f).isValid THEN validateFileSize(f)
    ELSE IF ~validateFileType(f).isValid THEN validateFileType(f)
    ELSE Valid

\* detectFileType comparing the type and the name as they are, in their own case.
detectFileTypeCaseSensitive(f) ==
    LET mimeType == f.type
        fileName == f.name
    IN IF mimeType = MimeXlsx \/ mimeType = MimeXls THEN "excel"
       ELSE IF mimeType = MimeCsv THEN "csv"
       ELSE IF endsWith(fileName, ExtXlsx) \/ endsWith(fileName, ExtXls) THEN "excel"
       ELSE IF endsWith(fileName, ExtCsv) THEN "csv"
       ELSE "unknown"

detectFileType(f) ==
    LET mimeType == toLowerCase(f.type)
        fileName == toLowerCase(f.name)
    IN IF mimeType = MimeXlsx \/ mimeType = MimeXls THEN "excel"
       ELSE IF mimeType = MimeCsv THEN "csv"
       ELSE IF endsWith(fileName, ExtXlsx) \/ endsWith(fileName, ExtXls) THEN "excel"
       ELSE IF endsWith(fileName, ExtCsv) THEN "csv"
       ELSE "unknown"

\* The files a user can pick.
File(name, type, size) == [t |-> "File", name |-> name, type |-> type, size |-> size]

FilePool ==
    {File(<<"a", ".", "c", "s", "v">>, MimeCsv, MAX_FILE_SIZE),
     File(<<"b", ".", "x", "l", "s", "x">>, MimeXlsx, 2048),
     File(<<"c", ".", "c", "s", "v">>, MimeXls, 2048),
     File(<<"d", ".", "x", "l", "s">>, MimeXls, 2048),
     File(<<"e", ".", "t", "x", "t">>, MimePlain, 2048),
     File(<<"f", ".", "c", "s", "v">>, MimeCsv, MAX_FILE_SIZE + 1)}

------------------------------------------------------------------------------
\* The tables the parsers deliver

MaxRows == 2          \* most data rows in a parsed table
MaxDuration == 1      \* Date.now() - startTime, in the model's clock ticks

HEmailPlain == <<"E", "m", "a", "i", "l">>
HMobilePlain == <<"M", "o", "b", "i", "l", "e">>

HeadersNameEmail == <<HFirstName, HEmailPlain>>
HeadersDeptMobilePhone == <<HDept, HMobilePlain, HPhone>>
HeadersNoTarget == <<HId, HDept>>

SpacedJOHN == <<" ", " ", "J", "O", "H", "N", " ", " ">>
DoeEmail == <<"d", "o", "e", "@", "E", "X", "A", "M", "P", "L", "E", ".", "c", "o", "m">>
doeEmail == <<"d", "o", "e", "@", "e", "x", "a", "m", "p", "l", "e", ".", "c", "o", "m">>
Blanks == <<" ", " ", " ">>
Sales == <<"S", "a", "l", "e", "s">>

RowJohn == <<Str(SpacedJOHN), Str(DoeEmail)>>
RowBlank == <<Str(Blanks), Str(<<>>), Str(<<" ">>)>>
RowTyped == <<Num(42), Null, Bool(FALSE)>>
RowRepeat == <<Str(Sales), Str(john), Str(john)>>

RowPool == {RowJohn, RowBlank, RowTyped, RowRepeat}

AllStrings(row) == \A c \in 1..Len(row) : row[c].t = "string"

\* Papa.parse delivers strings only; XLSX.utils.sheet_to_json with raw: true
\* delivers strings, numbers, booleans and holes.
ParserRows(fileType) ==
    IF fileType = "csv" THEN {r \in RowPool : AllStrings(r)} ELSE RowPool

RowLists(fileType) == UNION {[1..k -> ParserRows(fileType)] : k \in 0..MaxRows}

\* A table with no target column is never processed: one such table with rows
\* and one without stand for all of them.
ParserTables(fileType) ==
    {[headers |-> h, rows |-> rs] :
        h \in {HeadersNameEmail, HeadersDeptMobilePhone}, rs \in RowLists(fileType)}
    \cup {[headers |-> HeadersNoTarget, rows |-> rs] : rs \in {<<>>, <<RowRepeat>>}}

------------------------------------------------------------------------------
\* fileGenerator.ts: generateDownloadFilename

\* String(n) of a natural number: its decimal digits
RECURSIVE Digits(_)
Digits(n) ==
    IF n < 10 THEN <<HexDigits[n + 1]>>
    ELSE Append(Digits(n \div 10), HexDigits[(n % 10) + 1])

\* A Date by its local calendar fields: getFullYear(), getMonth() (from 0) and
\* getDate().
Date(year, month, day) == [t |-> "Date", year |-> year, month |-> month, date |-> day]

\* originalFilename.indexOf('.') / lastIndexOf('.'), from 0, -1 when there is none
indexOf(s, c) ==
    LET at == {i \in 1..Len(s) : s[i] = c}
    IN IF at = {} THEN -1 ELSE SetMin(at) - 1

lastIndexOf(s, c) ==
    LET at == {i \in 1..Len(s) : s[i] = c}
    IN IF at = {} THEN -1 ELSE SetMax(at) - 1

\* s.substring(from) and s.substring(0, to), indices from 0
substringFrom(s, from) == SubSeq(s, from + 1, Len(s))
substringTo(s, to) == SubSeq(s, 1, to)

Encrypted == <<"_", "e", "n", "c", "r", "y", "p", "t", "e", "d">>

\* generateDownloadFilename splitting the name at its first dot.
generateDownloadFilenameFirstDot(name0, now) ==
    LET month == padStart2(Digits(now.month + 1))
        day == padStart2(Digits(now.date))
        dateStr == Digits(now.year) \o <<"-">> \o month \o <<"-">> \o day
        dotIndex == indexOf(name0, ".")
        name == IF dotIndex = -1 THEN name0 ELSE substringTo(name0, dotIndex)
        extension == IF dotIndex = -1 THEN <<>> ELSE substringFrom(name0, dotIndex)
    IN name \o <<"_">> \o dateStr \o Encrypted \o extension

generateDownloadFilename(name0, now) ==
    LET month == padStart2(Digits(now.month + 1))
        day == padStart2(Digits(now.date))
        dateStr == Digits(now.year) \o <<"-">> \o month \o <<"-">> \o day
        lastDotIndex == lastIndexOf(name0, ".")
        name == IF lastDotIndex = -1 THEN name0 ELSE substringTo(name0, lastDotIndex)
        extension == IF lastDotIndex = -1 THEN <<>> ELSE substringFrom(name0, lastDotIndex)
    IN name \o <<"_">> \o dateStr \o Encrypted \o extension

\* The calendar
FirstYear == 2024
LastYear == 2026

DaysIn(year, month) ==
    IF month = 1 THEN (IF year % 4 = 0 /\ (year % 100 # 0 \/ year % 400 = 0) THEN 29 ELSE 28)
    ELSE IF month \in {3, 5, 8, 10} THEN 30
    ELSE 31

Dates ==
    UNION {{Date(y, m, d) : d \in 1..DaysIn(y, m)} : <<y, m>> \in (FirstYear..LastYear) \X (0..11)}

My_data_xlsx == <<"m", "y", ".", "d", "a", "t", "a", ".", "x", "l", "s", "x">>
Filename == <<"f", "i", "l", "e", "n", "a", "m", "e">>
Legacy_xls == <<"l", "e", "g", "a", "c", "y", ".", "x", "l", "s">>

FilenameAlphabet == {"a", "."}

Filenames ==
    StringsUpTo(FilenameAlphabet, MaxStrLen) \cup {My_data_xlsx, Filename, Legacy_xls}

FilenameInit ==
    /\ AppInit
    /\ HashIdle
    /\ MatcherIdle
    /\ ValidationIdle
    /\ originalFilename \in Filenames
    /\ date \in Dates
    /\ filenameRet = NotYet

GenerateDownloadFilename ==
    /\ filenameRet = NotYet
    /\ filenameRet' = Returns(generateDownloadFilename(originalFilename, date))
    /\ UNCHANGED <<originalFilename, date, appVars, hashVars, matcherVars, validationVars>>

FilenameNext == GenerateDownloadFilename

FilenameSpec == FilenameInit /\ [][FilenameNext]_vars

------------------------------------------------------------------------------
\* App.tsx

chunkSize == 100

NoTargetError == "No target columns found."
UnsupportedError == "Unsupported file format"
ParseError == "Failed to parse file"
EncryptError == "Encryption failed"

\* handleFileUpload / handleFileInputChange up to the await of the parser.
UploadStart(f) ==
    /\ state \in {"IDLE", "ERROR"}
    /\ LET validation == validateFile(f)
       IN IF ~validation.isValid
          THEN /\ state' = "ERROR"
               /\ errorMessage' = validation.errors[1]
               /\ UNCHANGED <<file, upload, download, runLog>>
          ELSE /\ file' = f
               /\ download' = Null
               /\ runLog' = <<>>
               /\ IF detectFileType(f) = "unknown"
                  THEN /\ state' = "ERROR"
                       /\ errorMessage' = UnsupportedError
                       /\ UNCHANGED upload
                  ELSE /\ state' = "PARSING"
                       /\ errorMessage' = ""
                       /\ upload' = [pc |-> "parsing", fileType |-> detectFileType(f)]
    /\ UNCHANGED <<parsedData, columnMappings, progress, stats, rowObjs, run, original>>
    /\ UNCHANGED <<hashVars, matcherVars, filenameVars, validationVars>>

\* The Dragger's customRequest (pointer devices).
HandleFileUpload == \E f \in FilePool : UploadStart(f)

\* The plain file input (touch devices).
HandleFileInputChange == \E f \in FilePool : UploadStart(f)

\* parseExcel / parseCSV resolves and the handler runs to its end.
ParseResolves ==
    /\ upload.pc = "parsing"
    /\ \E parsed \in ParserTables(upload.fileType) :
          /\ parsedData' = [headers |-> parsed.headers,
                            rows |-> [k \in 1..Len(parsed.rows) |-> k],
                            rowCount |-> Len(parsed.rows),
                            columnCount |-> Len(parsed.headers)]
          /\ rowObjs' = parsed.rows
          /\ original' = parsed.rows
          /\ columnMappings' = findTargetColumns(parsed.headers)
          /\ IF ~hasTargetColumns(parsed.headers)
             THEN /\ state' = "ERROR"
                  /\ errorMessage' = NoTargetError
             ELSE /\ state' = "READY"
                  /\ UNCHANGED errorMessage
    /\ upload' = NoUpload
    /\ UNCHANGED <<file, progress, stats, run, download>>
    /\ UNCHANGED runLog
    /\ UNCHANGED <<hashVars, matcherVars, filenameVars, validationVars>>

\* The parser rejects (corrupted file, empty CSV, read error).
ParseRejects ==
    /\ upload.pc = "parsing"
    /\ state' = "ERROR"
    /\ errorMessage' = ParseError
    /\ upload' = NoUpload
    /\ UNCHANGED <<file, parsedData, columnMappings, progress, stats, rowObjs, run,
                   download, original>>
    /\ UNCHANGED runLog
    /\ UNCHANGED <<hashVars, matcherVars, filenameVars, validationVars>>

\* String(cellValue)
String(cellValue) ==
    CASE cellValue.t = "string" -> cellValue.s
      [] cellValue.t = "number" -> Digits(cellValue.n)
      [] cellValue.t = "boolean" ->
            IF cellValue.b THEN <<"t", "r", "u", "e">> ELSE <<"f", "a", "l", "s", "e">>
      [] cellValue.t = "null" -> <<"n", "u", "l", "l">>
      [] cellValue.t = "undefined" -> <<"u", "n", "d", "e", "f", "i", "n", "e", "d">>

\* row[columnIndex], columnIndex counted from 0
At(row, columnIndex) ==
    IF columnIndex + 1 \in 1..Len(row) THEN row[columnIndex + 1] ELSE Undefined

\* cellValue !== undefined && cellValue !== null && cellValue !== ''
NonEmptyCell(cellValue) ==
    /\ cellValue # Undefined
    /\ cellValue # Null
    /\ cellValue # Str(<<>>)

IsTargetAlways(mapping) == TRUE
IsTarget(mapping) == mapping.isTarget

\* columnMappings.filter((m) => m.isTarget).length
TargetCount(mappings) == Cardinality({k \in 1..Len(mappings) : mappings[k].isTarget})

\* Percent without the division by totalCells.
PercentUndivided(processedCells, totalCells) == processedCells * 100

\* Math.round((processedCells / totalCells) * 100)
Percent(processedCells, totalCells) ==
    (200 * processedCells + totalCells) \div (2 * totalCells)

Min(a, b) == IF a <= b THEN a ELSE b

\* Entries of runLog: a target cell handed to hashValue and replaced by the digest
\* once the hash was awaited, a target cell left as it is, and a timer set by
\* setTimeout(resolve, 0) after the rows up to chunkEnd.
CellHashed(rowIdx, columnIndex, arg, percent) ==
    [op |-> "hashed", row |-> rowIdx, column |-> columnIndex, arg |-> arg, progress |-> percent]

CellSkipped(rowIdx, columnIndex, percent) ==
    [op |-> "skipped", row |-> rowIdx, column |-> columnIndex, arg |-> <<>>, progress |-> percent]

TimerSet(chunkEnd) ==
    [op |-> "timer", row |-> chunkEnd, column |-> 0, arg |-> <<>>, progress |-> 0]

\* The row array encryptedRows[rowIdx] refers to.
RunRow == rowObjs[run.encryptedRows[run.rowIdx + 1]]

\* handleEncrypt callable in every state: only its own test of parsedData and
\* file stands.
HandleEncryptUngated ==
    /\ IF parsedData = Null \/ file = Null
       THEN UNCHANGED <<state, progress, run, runLog>>
       ELSE /\ state' = "ENCRYPTING"
            /\ progress' = 0
            /\ runLog' = <<>>
            /\ run' = [pc |-> "loop",
                       encryptedCount |-> 0,
                       encryptedRows |-> parsedData.rows,
                       totalCells |-> Len(parsedData.rows) * TargetCount(columnMappings),
                       processedCells |-> 0,
                       i |-> 0, chunkEnd |-> 0, rowIdx |-> 0, mIdx |-> 0,
                       arg |-> <<>>]
    /\ UNCHANGED <<file, parsedData, columnMappings, errorMessage, stats, rowObjs, upload,
                   download, original>>
    /\ UNCHANGED <<hashVars, matcherVars, filenameVars, validationVars>>

\* handleEncrypt going through the rows from the last one to the first.
HandleEncryptReversed ==
    /\ state = "READY"
    /\ IF parsedData = Null \/ file = Null
       THEN UNCHANGED <<state, progress, run, runLog>>
       ELSE /\ state' = "ENCRYPTING"
            /\ progress' = 0
            /\ runLog' = <<>>
            /\ run' = [pc |-> "loop",
                       encryptedCount |-> 0,
                       encryptedRows |-> [k \in 1..Len(parsedData.rows) |->
                                            parsedData.rows[Len(parsedData.rows) + 1 - k]],
                       totalCells |-> Len(parsedData.rows) * TargetCount(columnMappings),
                       processedCells |-> 0,
                       i |-> 0, chunkEnd |-> 0, rowIdx |-> 0, mIdx |-> 0,
                       arg |-> <<>>]
    /\ UNCHANGED <<file, parsedData, columnMappings, errorMessage, stats, rowObjs, upload,
                   download, original>>
    /\ UNCHANGED <<hashVars, matcherVars, filenameVars, validationVars>>

\* Click on "Encrypt & Download": handleEncrypt up to the chunk loop.
HandleEncrypt ==
    /\ state = "READY"
    /\ IF parsedData = Null \/ file = Null
       THEN UNCHANGED <<state, progress, run, runLog>>
       ELSE /\ state' = "ENCRYPTING"
            /\ progress' = 0
            /\ runLog' = <<>>
            /\ run' = [pc |-> "loop",
                       encryptedCount |-> 0,
                       encryptedRows |-> parsedData.rows,
                       totalCells |-> Len(parsedData.rows) * TargetCount(columnMappings),
                       processedCells |-> 0,
                       i |-> 0, chunkEnd |-> 0, rowIdx |-> 0, mIdx |-> 0,
                       arg |-> <<>>]
    /\ UNCHANGED <<file, parsedData, columnMappings, errorMessage, stats, rowObjs, upload,
                   download, original>>
    /\ UNCHANGED <<hashVars, matcherVars, filenameVars, validationVars>>

\* The chunk loop with batches of chunkSize + 1 rows, the last of them gone
\* through again by the next batch.
ChunkLoopOverlapping ==
    /\ run.pc = "loop"
    /\ IF run.i < Len(run.encryptedRows)
       THEN run' = [run EXCEPT !.pc = "row",
                               !.chunkEnd = Min(run.i + chunkSize + 1, Len(run.encryptedRows)),
                               !.rowIdx = run.i]
       ELSE run' = [run EXCEPT !.pc = "generate"]
    /\ UNCHANGED <<state, file, parsedData, columnMappings, progress, errorMessage, stats,
                   rowObjs, upload, download, original>>
    /\ UNCHANGED runLog
    /\ UNCHANGED <<hashVars, matcherVars, filenameVars, validationVars>>

\* for (let i = 0; i < encryptedRows.length; i += chunkSize): the test and chunkEnd
ChunkLoop ==
    /\ run.pc = "loop"
    /\ IF run.i < Len(run.encryptedRows)
       THEN run' = [run EXCEPT !.pc = "row",
                               !.chunkEnd = Min(run.i + chunkSize, Len(run.encryptedRows)),
                               !.rowIdx = run.i]
       ELSE run' = [run EXCEPT !.pc = "generate"]
    /\ UNCHANGED <<state, file, parsedData, columnMappings, progress, errorMessage, stats,
                   rowObjs, upload, download, original>>
    /\ UNCHANGED runLog
    /\ UNCHANGED <<hashVars, matcherVars, filenameVars, validationVars>>

\* for (let rowIdx = i; rowIdx < chunkEnd; rowIdx++): the test; past the chunk the
\* handler awaits the timer.
NextRow ==
    /\ run.pc = "row"
    /\ IF run.rowIdx < run.chunkEnd
       THEN /\ run' = [run EXCEPT !.pc = "mapping", !.mIdx = 0]
            /\ UNCHANGED runLog
       ELSE /\ run' = [run EXCEPT !.pc = "yield"]
            /\ runLog' = Append(runLog, TimerSet(run.chunkEnd))
    /\ UNCHANGED <<state, file, parsedData, columnMappings, progress, errorMessage, stats,
                   rowObjs, upload, download, original>>
    /\ UNCHANGED <<hashVars, matcherVars, filenameVars, validationVars>>

\* for (const mapping of columnMappings): one mapping. A target cell that is not
\* empty is handed to hashValue and the handler awaits it; an empty one is only
\* counted.
NextMapping ==
    /\ run.pc = "mapping"
    /\ IF run.mIdx >= Len(columnMappings)
       THEN /\ run' = [run EXCEPT !.pc = "row", !.rowIdx = run.rowIdx + 1]
            /\ UNCHANGED <<progress, runLog>>
       ELSE LET mapping == columnMappings[run.mIdx + 1]
                cellValue == At(RunRow, mapping.columnIndex)
            IN IF ~IsTarget(mapping)
               THEN /\ run' = [run EXCEPT !.mIdx = run.mIdx + 1]
                    /\ UNCHANGED <<progress, runLog>>
               ELSE IF NonEmptyCell(cellValue)
               THEN /\ run' = [run EXCEPT !.pc = "hash", !.arg = String(cellValue)]
                    /\ UNCHANGED <<progress, runLog>>
               ELSE /\ run' = [run EXCEPT !.mIdx = run.mIdx + 1,
                                          !.processedCells = run.processedCells + 1]
                    /\ progress' = Percent(run.processedCells + 1, run.totalCells)
                    /\ runLog' = Append(runLog,
                                        CellSkipped(run.rowIdx, mapping.columnIndex,
                                                    Percent(run.processedCells + 1, run.totalCells)))
    /\ UNCHANGED <<state, file, parsedData, columnMappings, errorMessage, stats,
                   rowObjs, upload, download, original>>
    /\ UNCHANGED <<hashVars, matcherVars, filenameVars, validationVars>>

\* row[mapping.columnIndex] = hash
SetAt(row, columnIndex, value) == [row EXCEPT ![columnIndex + 1] = value]

\* The resolved hash written only when the row does not hold that digest yet.
HashResolvesDeduplicating ==
    /\ run.pc = "hash"
    /\ LET mapping == columnMappings[run.mIdx + 1]
           hash == hashValue(run.arg)
           rowRef == run.encryptedRows[run.rowIdx + 1]
           row == rowObjs[rowRef]
       IN IF \E c \in 1..Len(row) : row[c] = hash
          THEN UNCHANGED rowObjs
          ELSE rowObjs' = [rowObjs EXCEPT ![rowRef] = SetAt(row, mapping.columnIndex, hash)]
    /\ run' = [run EXCEPT !.pc = "mapping",
                          !.mIdx = run.mIdx + 1,
                          !.arg = <<>>,
                          !.encryptedCount = run.encryptedCount + 1,
                          !.processedCells = run.processedCells + 1]
    /\ progress' = Percent(run.processedCells + 1, run.totalCells)
    /\ runLog' = Append(runLog,
                        CellHashed(run.rowIdx, columnMappings[run.mIdx + 1].columnIndex, run.arg,
                                   Percent(run.processedCells + 1, run.totalCells)))
    /\ UNCHANGED <<state, file, parsedData, columnMappings, errorMessage, stats,
                   upload, download, original>>
    /\ UNCHANGED <<hashVars, matcherVars, filenameVars, validationVars>>

\* await hashValue(...) resolves: the cell is overwritten and counted.
HashResolves ==
    /\ run.pc = "hash"
    /\ LET mapping == columnMappings[run.mIdx + 1]
           hash == hashValue(run.arg)
           rowRef == run.encryptedRows[run.rowIdx + 1]
       IN rowObjs' = [rowObjs EXCEPT ![rowRef] = SetAt(rowObjs[rowRef], mapping.columnIndex, hash)]
    /\ run' = [run EXCEPT !.pc = "mapping",
                          !.mIdx = run.mIdx + 1,
                          !.arg = <<>>,
                          !.encryptedCount = run.encryptedCount + 1,
                          !.processedCells = run.processedCells + 1]
    /\ progress' = Percent(run.processedCells + 1, run.totalCells)
    /\ runLog' = Append(runLog,
                        CellHashed(run.rowIdx, columnMappings[run.mIdx + 1].columnIndex, run.arg,
                                   Percent(run.processedCells + 1, run.totalCells)))
    /\ UNCHANGED <<state, file, parsedData, columnMappings, errorMessage, stats,
                   upload, download, original>>
    /\ UNCHANGED <<hashVars, matcherVars, filenameVars, validationVars>>

\* The catch block publishing what the run has done so far: the rows as they are
\* and the count.
HashRejectsPublishingPartial ==
    /\ run.pc = "hash"
    /\ HashValueRun(run.arg).digests # <<>>
    /\ state' = "ERROR"
    /\ errorMessage' = EncryptError
    /\ run' = NoRun
    /\ stats' = [stats EXCEPT !.encryptedCells = run.encryptedCount]
    /\ UNCHANGED <<file, parsedData, columnMappings, progress, rowObjs, upload,
                   download, original>>
    /\ UNCHANGED runLog
    /\ UNCHANGED <<hashVars, matcherVars, filenameVars, validationVars>>

\* await hashValue(...) rejects (the digest is not available): the catch block.
HashRejects ==
    /\ run.pc = "hash"
    /\ HashValueRun(run.arg).digests # <<>>
    /\ state' = "ERROR"
    /\ errorMessage' = EncryptError
    /\ run' = NoRun
    /\ UNCHANGED <<file, parsedData, columnMappings, progress, stats, rowObjs, upload,
                   download, original>>
    /\ UNCHANGED runLog
    /\ UNCHANGED <<hashVars, matcherVars, filenameVars, validationVars>>

\* A timer whose callback leaves the handler where it is.
YieldNeverResumes ==
    /\ run.pc = "yield"
    /\ UNCHANGED vars

\* await new Promise((resolve) => setTimeout(resolve, 0)): the timer fires.
YieldResumes ==
    /\ run.pc = "yield"
    /\ run' = [run EXCEPT !.pc = "loop", !.i = run.i + chunkSize]
    /\ UNCHANGED <<state, file, parsedData, columnMappings, progress, errorMessage, stats,
                   rowObjs, upload, download, original>>
    /\ UNCHANGED runLog
    /\ UNCHANGED <<hashVars, matcherVars, filenameVars, validationVars>>

MimeCsvUtf8 == <<"t", "e", "x", "t", "/", "c", "s", "v", ";", "c", "h", "a", "r", "s", "e", "t", "=", "u", "t", "f", "-", "8", ";">>

\* A Blob whose rows are cut or filled with null to the width of the headers.
BlobSquared(fileType, encryptedData) ==
    [t |-> "Blob",
     kind |-> IF fileType = "excel" THEN "excel" ELSE "csv",
     bookType |-> IF fileType = "excel" THEN "xlsx" ELSE "csv",
     type |-> IF fileType = "excel" THEN MimeXlsx ELSE MimeCsvUtf8,
     headers |-> encryptedData.headers,
     rows |-> [k \in 1..Len(encryptedData.rows) |->
                 [c \in 1..encryptedData.columnCount |->
                     LET row == rowObjs[encryptedData.rows[k]]
                     IN IF c <= Len(row) THEN row[c] ELSE Null]]]

\* The data handed to generateExcel / generateCSV: the Blob holds the headers and
\* the rows as they are, written as an xlsx workbook or as CSV text.
Blob(fileType, encryptedData) ==
    [t |-> "Blob",
     kind |-> IF fileType = "excel" THEN "excel" ELSE "csv",
     bookType |-> IF fileType = "excel" THEN "xlsx" ELSE "csv",
     type |-> IF fileType = "excel" THEN MimeXlsx ELSE MimeCsvUtf8,
     headers |-> encryptedData.headers,
     rows |-> [k \in 1..Len(encryptedData.rows) |-> rowObjs[encryptedData.rows[k]]]]

\* downloadFile(blob, filename): what the browser saves.
downloadFile(blob, filename) ==
    [t |-> "Blob",
     kind |-> blob.kind,
     bookType |-> blob.bookType,
     type |-> blob.type,
     headers |-> blob.headers,
     rows |-> blob.rows,
     filename |-> filename]

\* new Date() at the time of the download
RunDates == {Date(2025, 9, 2), Date(2026, 0, 31)}

\* After the loop: the file is generated and downloaded, the stats are set.
GenerateAndDownload ==
    /\ run.pc = "generate"
    /\ \E now \in RunDates :
          LET encryptedData == [parsedData EXCEPT !.rows = run.encryptedRows]
              blob == Blob(detectFileType(file), encryptedData)
              filename == generateDownloadFilename(file.name, now)
          IN download' = downloadFile(blob, filename)
    /\ \E duration \in 0..MaxDuration :
          stats' = [totalRows |-> Len(parsedData.rows),
                    encryptedCells |-> run.encryptedCount,
                    duration |-> duration]
    /\ state' = "COMPLETE"
    /\ progress' = 100
    /\ run' = NoRun
    /\ UNCHANGED <<file, parsedData, columnMappings, errorMessage, rowObjs, upload, original>>
    /\ UNCHANGED runLog
    /\ UNCHANGED <<hashVars, matcherVars, filenameVars, validationVars>>

\* generateExcel / generateCSV / downloadFile throws: the catch block.
GenerateThrows ==
    /\ run.pc = "generate"
    /\ state' = "ERROR"
    /\ errorMessage' = EncryptError
    /\ run' = NoRun
    /\ UNCHANGED <<file, parsedData, columnMappings, progress, stats, rowObjs, upload,
                   download, original>>
    /\ UNCHANGED runLog
    /\ UNCHANGED <<hashVars, matcherVars, filenameVars, validationVars>>

\* A reset that clears the parsed table and keeps the column mappings.
HandleResetKeepingMappings ==
    /\ state \in {"COMPLETE", "ERROR"}
    /\ state' = "IDLE"
    /\ file' = Null
    /\ parsedData' = Null
    /\ progress' = 0
    /\ errorMessage' = ""
    /\ stats' = [totalRows |-> 0, encryptedCells |-> 0, duration |-> 0]
    /\ rowObjs' = <<>>
    /\ original' = <<>>
    /\ download' = Null
    /\ runLog' = <<>>
    /\ UNCHANGED <<columnMappings, upload, run>>
    /\ UNCHANGED <<hashVars, matcherVars, filenameVars, validationVars>>

\* "Upload Another File"
HandleReset ==
    /\ state \in {"COMPLETE", "ERROR"}
    /\ state' = "IDLE"
    /\ file' = Null
    /\ parsedData' = Null
    /\ columnMappings' = <<>>
    /\ progress' = 0
    /\ errorMessage' = ""
    /\ stats' = [totalRows |-> 0, encryptedCells |-> 0, duration |-> 0]
    /\ rowObjs' = <<>>
    /\ original' = <<>>
    /\ download' = Null
    /\ runLog' = <<>>
    /\ UNCHANGED <<upload, run>>
    /\ UNCHANGED <<hashVars, matcherVars, filenameVars, validationVars>>

\* The close button of the error Alert offering the parsed table again.
AlertCloseToReady ==
    /\ state = "ERROR"
    /\ state' = IF parsedData # Null /\ hasTargetColumns(parsedData.headers)
                THEN "READY" ELSE "IDLE"
    /\ UNCHANGED <<file, parsedData, columnMappings, progress, errorMessage, stats,
                   rowObjs, upload, run, download, original>>
    /\ UNCHANGED runLog
    /\ UNCHANGED <<hashVars, matcherVars, filenameVars, validationVars>>

\* The close button of the error Alert.
AlertClose ==
    /\ state = "ERROR"
    /\ state' = "IDLE"
    /\ UNCHANGED <<file, parsedData, columnMappings, progress, errorMessage, stats,
                   rowObjs, upload, run, download, original>>
    /\ UNCHANGED runLog
    /\ UNCHANGED <<hashVars, matcherVars, filenameVars, validationVars>>

Init ==
    /\ AppInit
    /\ HashIdle
    /\ MatcherIdle
    /\ FilenameIdle
    /\ ValidationIdle

Next ==
    \/ HandleFileUpload
    \/ HandleFileInputChange
    \/ ParseResolves
    \/ ParseRejects
    \/ HandleEncrypt
    \/ ChunkLoop
    \/ NextRow
    \/ NextMapping
    \/ HashResolves
    \/ HashRejects
    \/ YieldResumes
    \/ GenerateAndDownload
    \/ GenerateThrows
    \/ HandleReset
    \/ AlertClose

Spec == Init /\ [][Next]_vars

------------------------------------------------------------------------------
\* Runs over tables of more than one chunk

MaxChunks == 2        \* the longest tables have MaxChunks full chunks and one row more

\* Row counts around the chunk boundaries.
ChunkRowCounts ==
    {0, 1, chunkSize - 1, chunkSize, chunkSize + 1,
     MaxChunks * chunkSize, MaxChunks * chunkSize + 1}

\* Row k (from 1) of a long table: a name and no email, or an email and no name.
LongTableRow(k) ==
    IF k % 2 = 1 THEN <<Str(<<"a">>), Str(<<>>)>> ELSE <<Str(<<>>), Str(<<"b">>)>>

\* The page in READY after a.csv was parsed to a table of n rows.
ChunkInit ==
    /\ \E n \in ChunkRowCounts :
          /\ parsedData = [headers |-> HeadersNameEmail,
                           rows |-> [k \in 1..n |-> k],
                           rowCount |-> n,
                           columnCount |-> Len(HeadersNameEmail)]
          /\ rowObjs = [k \in 1..n |-> LongTableRow(k)]
          /\ original = [k \in 1..n |-> LongTableRow(k)]
    /\ state = "READY"
    /\ file = File(<<"a", ".", "c", "s", "v">>, MimeCsv, MAX_FILE_SIZE)
    /\ columnMappings = findTargetColumns(HeadersNameEmail)
    /\ progress = 0
    /\ errorMessage = ""
    /\ stats = [totalRows |-> 0, encryptedCells |-> 0, duration |-> 0]
    /\ upload = NoUpload
    /\ run = NoRun
    /\ download = Null
    /\ runLog = <<>>
    /\ HashIdle
    /\ MatcherIdle
    /\ FilenameIdle
    /\ ValidationIdle

ChunkNext ==
    \/ HandleEncrypt
    \/ ChunkLoop
    \/ NextRow
    \/ NextMapping
    \/ HashResolves
    \/ HashRejects
    \/ YieldResumes
    \/ GenerateAndDownload
    \/ GenerateThrows

ChunkSpec == ChunkInit /\ [][ChunkNext]_vars

\* The event loop runs every continuation that is ready: the synchronous steps
\* of the handler, the timer of setTimeout(resolve, 0), the settling of the
\* digest promise and the generation of the file.
RunFairness ==
    /\ WF_vars(ChunkLoop)
    /\ WF_vars(NextRow)
    /\ WF_vars(NextMapping)
    /\ WF_vars(HashResolves \/ HashRejects)
    /\ WF_vars(YieldResumes)
    /\ WF_vars(GenerateAndDownload \/ GenerateThrows)

FairChunkSpec == ChunkInit /\ [][ChunkNext]_vars /\ RunFairness

------------------------------------------------------------------------------
\* validateFile and detectFileType on the same File, and the upload handler on it

\* File names: extensions in any case, none, a supported one not at the end.
FileNames ==
    {<<"A", ".", "C", "S", "V">>,
     <<"b", ".", "x", "l", "s", "x">>,
     <<"c", ".", "X", "l", "s">>,
     <<"d", ".", "t", "x", "t">>,
     <<"e">>,
     <<".", "c", "s", "v">>,
     <<"f", ".", "c", "s", "v", ".", "b", "a", "k">>,
     <<"x", "l", "s", "x">>,
     <<"g", ".", "x", "l", "s", "m">>}

\* File.type as browsers report it: empty when unknown, the supported types, one
\* of them in upper case and one with a parameter, and other types.
FileTypes ==
    {<<>>, MimeCsv, MimeXls, MimeXlsx, MimePlain, MimeCsvUtf8,
     <<"T", "E", "X", "T", "/", "C", "S", "V">>,
     <<"a", "p", "p", "l", "i", "c", "a", "t", "i", "o", "n", "/", "j", "s", "o", "n">>}

FileSizes == {0, MAX_FILE_SIZE, MAX_FILE_SIZE + 1}

FileInit ==
    /\ AppInit
    /\ HashIdle
    /\ MatcherIdle
    /\ FilenameIdle
    /\ fileArg \in {File(name, type, size) :
                        name \in FileNames, type \in FileTypes, size \in FileSizes}
    /\ validationRet = NotYet
    /\ fileTypeRet = NotYet

ValidateFile ==
    /\ validationRet = NotYet
    /\ validationRet' = Returns(validateFile(fileArg))
    /\ UNCHANGED <<fileArg, fileTypeRet, appVars, hashVars, matcherVars, filenameVars>>

DetectFileType ==
    /\ fileTypeRet = NotYet
    /\ fileTypeRet' = Returns(detectFileType(fileArg))
    /\ UNCHANGED <<fileArg, validationRet, appVars, hashVars, matcherVars, filenameVars>>

\* The file dropped on the page in its initial state.
UploadFileArg ==
    /\ state = "IDLE"
    /\ UploadStart(fileArg)

FileNext == ValidateFile \/ DetectFileType \/ UploadFileArg

FileSpec == FileInit /\ [][FileNext]_vars

------------------------------------------------------------------------------
\* Claims about the cells of a finished run

\* digest(s) of the specification: the hexadecimal SHA-256 of the string s
DigestOf(s) == Str(HashHex(SubtleDigest(encode(s))))

\* The zero-based indices of the target columns of the table in hand
TargetColumns ==
    {columnMappings[k].columnIndex : k \in {j \in 1..Len(columnMappings) : columnMappings[j].isTarget}}

Widest(rows) == SetMax({0} \cup {Len(rows[r]) : r \in 1..Len(rows)})

Succeeded == state = "COMPLETE" /\ download.t = "Blob"

\* A value the processor is to skip: null, missing, "" or white space only
Skippable(cell) ==
    \/ cell.t \in {"null", "undefined"}
    \/ cell.t = "string" /\ trim(cell.s) = <<>>

\* C1: after a successful run, every target cell that held a string with
\* something left after trimming holds digest(lowercase(trim(original))); the row
\* ["  JOHN  ", "doe@EXAMPLE.com"] under ["First Name", "Email"] becomes
\* [digest("john"), digest("doe@example.com")].
C1_TargetStringsBecomeDigests ==
    Succeeded =>
        /\ Len(download.rows) = Len(original)
        /\ \A r \in 1..Len(original) : \A c \in TargetColumns :
              LET o == At(original[r], c)
              IN (o.t = "string" /\ trim(o.s) # <<>>) =>
                     At(download.rows[r], c) = DigestOf(toLowerCase(trim(o.s)))
        /\ \A r \in 1..Len(original) :
              (parsedData.headers = HeadersNameEmail /\ original[r] = RowJohn) =>
                  download.rows[r] = <<DigestOf(john), DigestOf(doeEmail)>>

C1_Witness ==
    /\ Succeeded
    /\ parsedData.headers = HeadersNameEmail
    /\ original = <<RowJohn>>
    /\ download.rows = <<<<DigestOf(john), DigestOf(doeEmail)>>>>

\* C2: a target cell that is null, missing, "" or white space only is in the
\* output exactly what it was in the input, and is not counted in encryptedCells.
C2_EmptyTargetCellsUntouched ==
    Succeeded =>
        /\ \A r \in 1..Len(original) : \A c \in TargetColumns :
              Skippable(At(original[r], c)) =>
                  At(download.rows[r], c) = At(original[r], c)
        /\ stats.encryptedCells <=
              Cardinality({rc \in (1..Len(original)) \X TargetColumns :
                              ~Skippable(At(original[rc[1]], rc[2]))})

\* C3: a number or boolean cell is the same in the output as in the input, in
\* target columns too; the cells that differ from the input are string cells of
\* target columns.
C3_OnlyStringsAreReplaced ==
    Succeeded =>
        \A r \in 1..Len(original) : \A c \in 0..Widest(original) :
            LET o == At(original[r], c)
                n == At(download.rows[r], c)
            IN /\ (o.t \in {"number", "boolean"}) => n = o
               /\ (n # o) => (o.t = "string" /\ c \in TargetColumns)

\* C4: at every moment of a run and in the file it downloads, every cell outside
\* the target columns is what the parser delivered, and no row changes length.
C4_NonTargetCellsUnchanged ==
    LET Same(rows) ==
            /\ Len(rows) = Len(original)
            /\ \A r \in 1..Len(original) :
                  /\ Len(rows[r]) = Len(original[r])
                  /\ \A c \in (0..Widest(original)) \ TargetColumns :
                        At(rows[r], c) = At(original[r], c)
    IN /\ Same(rowObjs)
       /\ Succeeded => Same(download.rows)

C4_Witness ==
    /\ Succeeded
    /\ parsedData.headers = HeadersDeptMobilePhone
    /\ original = <<RowTyped, RowJohn>>
    /\ download.rows[1][1] = Num(42)
    /\ download.rows[1][3] # original[1][3]
    /\ download.rows[2][1] = Str(SpacedJOHN)
    /\ download.rows[2][2] = DigestOf(doeEmail)

------------------------------------------------------------------------------
\* Claims about a run of handleEncrypt

Running == state = "ENCRYPTING"

\* Every row and every target cell of the run has been gone through.
AllRowsProcessed ==
    /\ run.pc = "generate"
    /\ run.i >= Len(run.encryptedRows)
    /\ run.processedCells = run.totalCells

\* C13: during a run the progress never decreases, it is always between 0 and
\* 100, and a run that succeeds leaves it at 100, a run over no rows included.
C13_ProgressMonotone ==
    /\ [](progress \in 0..100)
    /\ [][Running => progress' >= progress]_vars
    /\ [][(Running /\ state' = "COMPLETE") => progress' = 100]_vars
    /\ [](state = "COMPLETE" => progress = 100)

C13_Witness ==
    /\ Running
    /\ run.pc = "mapping"
    /\ run.processedCells = 1
    /\ progress = 25

C13_WitnessNoRows ==
    /\ state = "COMPLETE"
    /\ original = <<>>
    /\ progress = 100

\* C14: whenever the progress is 100, every row has been processed, the file has
\* been handed to the browser and the state is COMPLETE; a run still at work and
\* a run that ended in ERROR never show 100.
C14_HundredOnlyOnSuccess ==
    progress = 100 =>
        /\ state = "COMPLETE"
        /\ download.t = "Blob"
        /\ run = NoRun

\* C15: a run that fails ends in ERROR with a message, downloads nothing and
\* leaves the statistics as they were before the run; the only step that
\* downloads is the one that ends the run in COMPLETE, after every row.
C15_FailureIsTotal ==
    /\ [][(Running /\ state' = "ERROR") =>
              /\ errorMessage' # ""
              /\ download' = Null
              /\ stats' = stats]_vars
    /\ [][(Running /\ state' # "COMPLETE") =>
              (stats' = stats /\ download' = download)]_vars
    /\ [][(download' # download /\ download' # Null) =>
              (Running /\ AllRowsProcessed /\ state' = "COMPLETE")]_vars
    /\ [](Running => download = Null)

C15_Witness ==
    /\ state = "ERROR"
    /\ errorMessage = EncryptError
    /\ download = Null
    /\ rowObjs # original
    /\ stats = [totalRows |-> 0, encryptedCells |-> 0, duration |-> 0]

\* C16: in READY, ENCRYPTING and COMPLETE the table in hand has a target column
\* (hasTargetColumns holds and some mapping has isTarget); a parse that delivers
\* a table without one ends in ERROR, and the encrypt action is enabled in READY
\* only.
C16_NoRunWithoutTargets ==
    /\ [](state \in {"READY", "ENCRYPTING", "COMPLETE"} =>
              /\ parsedData # Null
              /\ hasTargetColumns(parsedData.headers)
              /\ \E k \in 1..Len(columnMappings) : columnMappings[k].isTarget)
    /\ [][(upload.pc = "parsing" /\ upload'.pc = "none" /\ parsedData' # Null
            /\ \A k \in 1..Len(columnMappings') : ~columnMappings'[k].isTarget) =>
              state' = "ERROR"]_vars
    /\ [][run'.pc # "none" /\ run.pc = "none" => state = "READY"]_vars

C16_Witness ==
    /\ state = "ERROR"
    /\ errorMessage = NoTargetError
    /\ parsedData # Null
    /\ parsedData.headers = HeadersNoTarget
    /\ run = NoRun

\* C17: with two target columns, a row whose two cells hold the same text gets
\* two digests that differ.
C17_EqualValuesDistinctDigests ==
    Succeeded =>
        \A r \in 1..Len(original) : \A c1, c2 \in TargetColumns :
            LET o1 == At(original[r], c1)
                o2 == At(original[r], c2)
            IN (c1 # c2 /\ o1 = o2 /\ o1.t = "string" /\ trim(o1.s) # <<>>) =>
                   At(download.rows[r], c1) # At(download.rows[r], c2)

\* C17 (amended): with two target columns, each cell that holds text is replaced
\* by its own digest, whatever the other cell holds, and the two digests are
\* equal exactly when the two texts agree after trimming and lower-casing.
C17_EachHashedEqualValuesEqualDigests ==
    Succeeded =>
        \A r \in 1..Len(original) : \A c1, c2 \in TargetColumns :
            LET o1 == At(original[r], c1)
                o2 == At(original[r], c2)
                n1 == At(download.rows[r], c1)
                n2 == At(download.rows[r], c2)
            IN (/\ c1 # c2
                /\ o1.t = "string" /\ trim(o1.s) # <<>>
                /\ o2.t = "string" /\ trim(o2.s) # <<>>) =>
                   /\ n1.t = "string" /\ Len(n1.s) = 64 /\ n1 # o1
                   /\ n2.t = "string" /\ Len(n2.s) = 64 /\ n2 # o2
                   /\ (n1 = n2) <=> (toLowerCase(trim(o1.s)) = toLowerCase(trim(o2.s)))

C17_Witness ==
    /\ Succeeded
    /\ parsedData.headers = HeadersDeptMobilePhone
    /\ original = <<RowRepeat>>
    /\ download.rows = <<<<Str(Sales), DigestOf(john), DigestOf(john)>>>>
    /\ stats.encryptedCells = 2

FamilyOfName(name) ==
    LET n == toLowerCase(name)
    IN IF endsWith(n, ExtCsv) THEN "csv"
       ELSE IF endsWith(n, ExtXlsx) THEN "xlsx"
       ELSE IF endsWith(n, ExtXls) THEN "xls"
       ELSE "none"

\* C19: the file downloaded has the format of the uploaded file's extension,
\* and so has its name: .csv gives CSV text, .xlsx an xlsx workbook, .xls an xls
\* workbook, whatever MIME type the file came with.
C19_SameFileFamily ==
    (Succeeded /\ FamilyOfName(file.name) # "none") =>
        /\ FamilyOfName(download.filename) = FamilyOfName(file.name)
        /\ download.bookType = FamilyOfName(file.name)

\* What the specification lets the state do
AllowedTransitions ==
    {<<"IDLE", "PARSING">>, <<"PARSING", "READY">>, <<"READY", "ENCRYPTING">>,
     <<"ENCRYPTING", "COMPLETE">>,
     <<"PARSING", "ERROR">>, <<"READY", "ERROR">>, <<"ENCRYPTING", "ERROR">>,
     <<"COMPLETE", "IDLE">>, <<"ERROR", "IDLE">>,
     <<"COMPLETE", "PARSING">>, <<"ERROR", "PARSING">>}

ExternalReset == HandleReset \/ AlertClose \/ HandleFileUpload \/ HandleFileInputChange

\* C20: the state changes only along IDLE, PARSING, READY, ENCRYPTING, COMPLETE,
\* or into ERROR from PARSING, READY or ENCRYPTING; COMPLETE and ERROR are left
\* only by a reset, a dismissal or a new upload.
C20_StateMachine ==
    /\ [][state' # state => <<state, state'>> \in AllowedTransitions]_vars
    /\ [][(state \in {"COMPLETE", "ERROR"} /\ state' # state) => ExternalReset]_vars

------------------------------------------------------------------------------
\* Claims about the parsed table and the chunk loop

\* C21: a run never modifies the parsed table: the rows parsedData holds are the
\* rows the parser delivered, before, during and after a run, whether it succeeds
\* or fails.
C21_ParsedRowsNeverModified ==
    parsedData # Null =>
        \A k \in 1..Len(parsedData.rows) : rowObjs[parsedData.rows[k]] = original[k]

\* The timers the run has set so far.
TimersSet == Cardinality({p \in 1..Len(runLog) : runLog[p].op = "timer"})

LastLogged == runLog[Len(runLog)]

TargetColumnSeq ==
    LET idx == {k \in 1..Len(columnMappings) : columnMappings[k].isTarget}
    IN [j \in 1..Cardinality(idx) |->
           columnMappings[CHOOSE k \in idx : Cardinality({i \in idx : i < k}) = j - 1].columnIndex]

\* What a run over the parsed table does when nothing fails, from the table
\* alone: row after row, in each row the target columns from left to right, a
\* timer after every chunkSize-th row and after the last row.
ExpectedRowEntries(r) ==
    LET T == Len(TargetColumnSeq)
        total == Len(original) * T
    IN [j \in 1..T |->
           LET cell == At(original[r + 1], TargetColumnSeq[j])
               percent == (200 * (r * T + j) + total) \div (2 * total)
           IN IF cell.t \in {"null", "undefined"} \/ cell = Str(<<>>)
              THEN CellSkipped(r, TargetColumnSeq[j], percent)
              ELSE CellHashed(r, TargetColumnSeq[j], String(cell), percent)]

RECURSIVE ExpectedLogUpTo(_)
ExpectedLogUpTo(n) ==
    IF n = 0 THEN <<>>
    ELSE ExpectedLogUpTo(n - 1) \o ExpectedRowEntries(n - 1)
         \o (IF n % chunkSize = 0 \/ n = Len(original) THEN <<TimerSet(n)>> ELSE <<>>)

ExpectedLog == ExpectedLogUpTo(Len(original))

IsPrefix(s, t) == Len(s) <= Len(t) /\ \A p \in 1..Len(s) : s[p] = t[p]

IsCellEntry(e) == e.op # "timer"

CellsLogged == SelectSeq(runLog, IsCellEntry)

\* C23 (as amended): every row is visited once, in increasing row index, and in
\* a row the target columns in increasing column index; while a hash is awaited
\* no later cell has been read or written; and the cells visited, the values
\* handed to hashValue, the progress values and the counts totalRows and
\* encryptedCells are a function of the parsed table alone.
C23_VisitsDeterministic ==
    /\ \A p, q \in 1..Len(CellsLogged) :
          p < q => \/ CellsLogged[p].row < CellsLogged[q].row
                   \/ /\ CellsLogged[p].row = CellsLogged[q].row
                      /\ CellsLogged[p].column < CellsLogged[q].column
    /\ state = "COMPLETE" =>
          {<<CellsLogged[p].row, CellsLogged[p].column>> : p \in 1..Len(CellsLogged)}
              = (0..(Len(original) - 1)) \X TargetColumns
    /\ run.pc = "hash" =>
          LET column == columnMappings[run.mIdx + 1].columnIndex
          IN /\ \A p \in 1..Len(CellsLogged) :
                   \/ CellsLogged[p].row < run.rowIdx
                   \/ CellsLogged[p].row = run.rowIdx /\ CellsLogged[p].column < column
             /\ \A r \in 1..Len(original) : \A c \in TargetColumns :
                   (r - 1 > run.rowIdx \/ (r - 1 = run.rowIdx /\ c >= column)) =>
                       At(rowObjs[r], c) = At(original[r], c)
    /\ IsPrefix(runLog, ExpectedLog)
    /\ progress > 0 /\ state = "ENCRYPTING" =>
          progress = CellsLogged[Len(CellsLogged)].progress
    /\ state = "COMPLETE" =>
          /\ runLog = ExpectedLog
          /\ stats.totalRows = Len(original)
          /\ stats.encryptedCells =
                Cardinality({p \in 1..Len(ExpectedLog) : ExpectedLog[p].op = "hashed"})

\* The statistics a finished run may publish.
StatsValues ==
    [totalRows : 0..MaxRows, encryptedCells : 0..(MaxRows * MaxHeaders * 2), duration : 0..(MaxDuration + 1)]

\* C23: as above, and two runs over the same input publish the same statistics:
\* at the end of the loop one value of stats is possible, not two.
C23_RunsDeterministic ==
    /\ C23_VisitsDeterministic
    /\ \A s1, s2 \in StatsValues :
          (/\ ENABLED (GenerateAndDownload /\ stats' = s1)
           /\ ENABLED (GenerateAndDownload /\ stats' = s2)) => s1 = s2

\* A finished run over two rows that hashed some cells and skipped others.
C23_Witness ==
    /\ state = "COMPLETE"
    /\ Len(original) = 2
    /\ \E p, q \in 1..Len(runLog) : runLog[p].op = "hashed" /\ runLog[q].op = "skipped"
    /\ runLog = ExpectedLog

\* A cell holding a digest: 2 * DigestBytes hexadecimal characters.
IsDigestCell(cell) ==
    /\ cell.t = "string"
    /\ Len(cell.s) = 2 * DigestBytes
    /\ \A i \in 1..Len(cell.s) : IsHexChar(cell.s[i])

\* The target cells of the table, as <<row, column index>>.
TargetCells == (1..Len(original)) \X TargetColumns

\* C24: on success encryptedCells is the number of target cells replaced by a
\* digest, the others (emptyCellsSkipped, which the page does not publish) are
\* the target cells left as they were, the two add up to totalRows times the
\* number of target columns and totalRows is rowCount; the counter of a run
\* never decreases.
C24_CountsExact ==
    /\ [](Succeeded =>
            LET replaced == {rc \in TargetCells :
                                /\ IsDigestCell(At(download.rows[rc[1]], rc[2]))
                                /\ At(download.rows[rc[1]], rc[2]) # At(original[rc[1]], rc[2])}
                leftAsIs == {rc \in TargetCells :
                                At(download.rows[rc[1]], rc[2]) = At(original[rc[1]], rc[2])}
            IN /\ stats.totalRows = parsedData.rowCount
               /\ stats.encryptedCells = Cardinality(replaced)
               /\ stats.encryptedCells + Cardinality(leftAsIs)
                     = stats.totalRows * Cardinality(TargetColumns))
    /\ [][(Running /\ run'.pc # "none") =>
              /\ run'.encryptedCount >= run.encryptedCount
              /\ run'.processedCells >= run.processedCells]_vars

\* ceil(rowCount / chunkSize)
ChunkCount(rowCount) == (rowCount + chunkSize - 1) \div chunkSize

\* C25: under the fair scheduling of the event loop every run leaves ENCRYPTING,
\* for COMPLETE with progress 100 or for ERROR, and the run that completes has
\* yielded ceil(rowCount / chunkSize) times, no run more often.
C25_RunTerminates ==
    /\ (state = "ENCRYPTING") ~> (state \in {"COMPLETE", "ERROR"})
    /\ [](state = "COMPLETE" =>
             /\ progress = 100
             /\ TimersSet = ChunkCount(parsedData.rowCount))
    /\ [](parsedData # Null => TimersSet <= ChunkCount(parsedData.rowCount))

\* The longest table done: MaxChunks full chunks and a last chunk of one row.
C25_Witness ==
    /\ state = "COMPLETE"
    /\ progress = 100
    /\ parsedData.rowCount = MaxChunks * chunkSize + 1
    /\ TimersSet = MaxChunks + 1

\* C26: at most one run is in flight. A run starts in READY only and the state
\* is ENCRYPTING from its first step to its last; while the state is ENCRYPTING
\* or PARSING no upload, reset, dismissal or encrypt is enabled, and no step taken
\* while a run is in flight changes file, parsedData or columnMappings.
C26_OneRunInFlight ==
    /\ [](run.pc # "none" <=> state = "ENCRYPTING")
    /\ [](upload.pc # "none" <=> state = "PARSING")
    /\ [][(run.pc = "none" /\ run'.pc # "none") =>
              (state = "READY" /\ state' = "ENCRYPTING")]_vars
    /\ [](state \in {"ENCRYPTING", "PARSING"} =>
              /\ ~ENABLED HandleFileUpload
              /\ ~ENABLED HandleFileInputChange
              /\ ~ENABLED HandleReset
              /\ ~ENABLED AlertClose
              /\ ~ENABLED HandleEncrypt)
    /\ [][Running =>
              /\ file' = file
              /\ parsedData' = parsedData
              /\ columnMappings' = columnMappings]_vars

\* A run waiting for a digest after it has gone through some cells.
C26_Witness ==
    /\ state = "ENCRYPTING"
    /\ run.pc = "hash"
    /\ runLog # <<>>
    /\ upload.pc = "none"

\* The entries of runLog for the cells handed to hashValue.
HashedLogged == {p \in 1..Len(runLog) : runLog[p].op = "hashed"}

\* C27: no cell is hashed twice: a run hands each cell to hashValue at most once
\* and what it hands over is the parsed value, never a digest written before; a
\* parsed table is processed by at most one run, because READY is entered only by
\* a parse that delivers a fresh table and is left only by the start of the run;
\* after COMPLETE or ERROR encrypt is not enabled.
C27_NoCellHashedTwice ==
    /\ [](\A p, q \in HashedLogged :
              (runLog[p].row = runLog[q].row /\ runLog[p].column = runLog[q].column) => p = q)
    /\ [](\A p \in HashedLogged :
              runLog[p].arg = String(At(original[runLog[p].row + 1], runLog[p].column)))
    /\ [][(state' = "READY" /\ state # "READY") =>
              (upload.pc = "parsing" /\ rowObjs' = original' /\ run.pc = "none")]_vars
    /\ [][(state = "READY" /\ state' # "READY") =>
              (state' = "ENCRYPTING" /\ run.pc = "none" /\ run'.pc = "loop")]_vars
    /\ [](state \in {"COMPLETE", "ERROR"} => ~ENABLED HandleEncrypt)

\* A run that failed after it had replaced a cell: the table stays partly hashed
\* and no second run can be started on it.
C27_Witness ==
    /\ state = "ERROR"
    /\ errorMessage = EncryptError
    /\ HashedLogged # {}
    /\ rowObjs # original
    /\ ~ENABLED HandleEncrypt

C30_IdleIsInitial ==
    state = "IDLE" =>
        /\ file = Null
        /\ parsedData = Null
        /\ columnMappings = <<>>
        /\ progress = 0
        /\ errorMessage = ""
        /\ stats = [totalRows |-> 0, encryptedCells |-> 0, duration |-> 0]

------------------------------------------------------------------------------
\* Claims about validateFile and detectFileType

\* C29: every file validateFile accepts is classified by detectFileType as
\* 'excel' or 'csv', never 'unknown', so the upload handler never reports
\* 'Unsupported file format'.
C29_AcceptedFilesHaveAType ==
    /\ (validationRet # NotYet /\ fileTypeRet # NotYet /\ validationRet.v.isValid) =>
           fileTypeRet.v \in {"excel", "csv"}
    /\ errorMessage # UnsupportedError
    /\ upload.pc = "parsing" => upload.fileType \in {"excel", "csv"}

\* A file accepted by its extension alone, in upper case and with no MIME type,
\* and handed to the CSV parser.
C29_Witness ==
    /\ fileArg.name = <<"A", ".", "C", "S", "V">>
    /\ fileArg.type = <<>>
    /\ validationRet = Returns(Valid)
    /\ fileTypeRet = Returns("csv")
    /\ state = "PARSING"
    /\ upload.fileType = "csv"

------------------------------------------------------------------------------
\* Claims about generateDownloadFilename

DecimalDigit(k) == HexDigits[k + 1]

\* YYYY-MM-DD of a date, digit by digit
Stamp(d) ==
    LET y == d.year
        m == d.month + 1
    IN <<DecimalDigit(y \div 1000), DecimalDigit((y \div 100) % 10),
         DecimalDigit((y \div 10) % 10), DecimalDigit(y % 10), "-",
         DecimalDigit(m \div 10), DecimalDigit(m % 10), "-",
         DecimalDigit(d.date \div 10), DecimalDigit(d.date % 10)>>

HasNoDot(s) == \A i \in 1..Len(s) : s[i] # "."

\* name = stem + ext, split at the last dot of name (ext holds that dot), or
\* ext empty when name has no dot
SplitAtLastDot(name, stem, ext) ==
    /\ stem \o ext = name
    /\ IF HasNoDot(name) THEN ext = <<>>
       ELSE ext # <<>> /\ ext[1] = "." /\ HasNoDot(Tail(ext))

My_data_encrypted == <<"m", "y", ".", "d", "a", "t", "a", "_", "2", "0", "2", "5", "-", "1", "0", "-", "0", "2", "_", "e", "n", "c", "r", "y", "p", "t", "e", "d", ".", "x", "l", "s", "x">>

\* C12: the name returned is stem + "_" + YYYY-MM-DD + "_encrypted" + ext, where
\* stem + ext is the original name split at its last dot (ext empty without a
\* dot) and month and day have two digits; "my.data.xlsx" on 2025-10-02 gives
\* "my.data_2025-10-02_encrypted.xlsx".
C12_DownloadFilename ==
    filenameRet.t = "returned" =>
        /\ \E k \in 0..Len(originalFilename) :
              LET stem == SubSeq(originalFilename, 1, k)
                  ext == SubSeq(originalFilename, k + 1, Len(originalFilename))
              IN /\ SplitAtLastDot(originalFilename, stem, ext)
                 /\ filenameRet.v = stem \o <<"_">> \o Stamp(date) \o Encrypted \o ext
        /\ (originalFilename = My_data_xlsx /\ date = Date(2025, 9, 2)) =>
               filenameRet.v = My_data_encrypted

C12_Witness ==
    /\ originalFilename = My_data_xlsx
    /\ date = Date(2025, 9, 2)
    /\ filenameRet = Returns(My_data_encrypted)

------------------------------------------------------------------------------
\* Claims about findTargetColumns

KnownAliases ==
    {k_firstname, k_fname, k_lastname, k_lname, k_email, k_emailaddress, k_mobile, k_mobilenumber, k_phone, k_phonenumber}

\* C8: isTarget is true exactly for the headers whose normalized name is one of
\* the ten known aliases; any other header, the empty one included, is no target
\* and has no targetType.
C8_TargetIffKnownAlias ==
    mappingsRet.t = "returned" =>
        \A i \in 1..Len(mappingsRet.v) :
            /\ mappingsRet.v[i].isTarget <=> (mappingsRet.v[i].normalizedName \in KnownAliases)
            /\ (mappingsRet.v[i].normalizedName \notin KnownAliases) =>
                   mappingsRet.v[i].targetType = Undefined

Letters(header) ==
    LET kept == SelectSeq(header, IsNotSeparator)
    IN [i \in 1..Len(kept) |-> LowerChar(kept[i])]

IsUpperCase(c) == c = "SIGMA" \/ \E i \in 1..Len(UpperCase) : UpperCase[i] = c

IsAscii(header) == \A k \in 1..Len(header) : header[k] \notin Sigmas

C10_OneMappingPerHeader ==
    mappingsRet.t = "returned" =>
        /\ Len(mappingsRet.v) = Len(headersArg)
        /\ \A i \in 1..Len(headersArg) :
              /\ mappingsRet.v[i].originalName = headersArg[i]
              /\ mappingsRet.v[i].columnIndex = i - 1
              /\ mappingsRet.v[i].normalizedName = normalizeColumnName(headersArg[i])

C10_Witness ==
    /\ headersArg = <<HPhone, HPhone>>
    /\ mappingsRet.t = "returned"
    /\ Len(mappingsRet.v) = 2
    /\ mappingsRet.v[1].columnIndex = 0
    /\ mappingsRet.v[2].columnIndex = 1

====
